---- MODULE Spec2Model ----
(***************************************************************************)
(* Telemetry ingestion and orientation dispatch of Local_Sensor_Tester.    *)
(*                                                                         *)
(* WebBLEManager (src/src/webble.ts) decodes binary packets, caches the    *)
(* latest value of every field group and emits coalesced 'data' events     *)
(* from a queued microtask.  AccelerometerApp (src/unnamed/part_001)       *)
(* consumes the events of the BLE manager and of the serial manager:       *)
(* rate window, device-clock delta time, mode dispatch.                    *)
(*                                                                         *)
(* Scheduling.  JavaScript runs one task at a time and drains the          *)
(* microtask queue FIFO before the next task.  The packet listener, the    *)
(* gattserverdisconnected listener and disconnect() are plain synchronous  *)
(* calls: the host may run several of them back to back before the         *)
(* microtask checkpoint (this is the case emitScheduled exists for).       *)
(* Completions of awaited I/O, DOM input events and serial events begin a  *)
(* task of their own, so they run only when the microtask queue is empty.  *)
(*                                                                         *)
(* Values.  A nullable value is a tuple: <<>> is null, a 3-tuple is a      *)
(* vector or a roll/pitch/yaw triple, <<v>> a scalar.  Floats are integers *)
(* plus three codes for the non-finite values.  DOM text, graphs and the   *)
(* 3D scene are not state of this model; the calls made on the PCB model   *)
(* are recorded in pcbCall.                                                *)
(*                                                                         *)
(* Specifications.  Spec is the whole program; SpecBle is the manager with *)
(* the app listening, SpecApp the app with both transports, SpecMode the   *)
(* app fed by the serial transport alone; SpecNorm and SpecRate apply      *)
(* normalize180 and the message-rate window to inputs of their own.        *)
(***************************************************************************)
EXTENDS Integers, Sequences, FiniteSets, TLC

\* ------------------------------------------------------------------ bounds
MaxT == 2          \* device times are 0..MaxT
MaxWin == 3        \* samples are fed only while the rate window is shorter
MaxTurnPkts == 2   \* packet notifications handled within one turn
MaxDeg == 400      \* angles given to normalize180 are -MaxDeg..MaxDeg degrees
MaxTick == 7       \* the rate meter on its own: sample times are 0..MaxTick ticks
MaxRateLen == 7    \* and samples are fed while its window is shorter than this
MaxBack == 1       \* and a sample is at most this many ticks older than the last

\* ------------------------------------------------------------------ floats
NaN == 900001
PosInf == 900002
NegInf == 900003
NonFinite == {NaN, PosInf, NegInf}
isFinite(x) == x \notin NonFinite

Null == <<>>
Max(a, b) == IF a >= b THEN a ELSE b

Times == 0..MaxT
TimeVals == Times \cup {NaN}

\* ------------------------------------------------------------- packet input
\* Float at 0-based index i of a crafted payload of kind k: kind 1 is
\* positive, kind 2 negative and large, kind 3 zero with non-finite entries.
FieldVal(k, i) ==
    IF k = 1 THEN 100 + i
    ELSE IF k = 2 THEN 0 - (70000 + i)
    ELSE IF i \in {0, 9, 18} THEN NaN
    ELSE IF i = 12 THEN PosInf
    ELSE IF i = 15 THEN NegInf
    ELSE 0

\* A DataView: nf complete little-endian float32 groups followed by extra
\* trailing bytes (0..3).
Exact == <<20, 0>>
WrongShapes == { <<19, 0>>, <<19, 3>>, <<20, 1>>, <<21, 0>>, <<0, 0>> }
Buffers ==
    [k : 1..2, tv : {0, MaxT}, shape : {Exact}]
    \cup [k : {3}, tv : {0, NaN, PosInf}, shape : {Exact}]
    \cup [k : {1}, tv : {MaxT}, shape : WrongShapes]
NoBuf == [k |-> 0, tv |-> 0, shape |-> <<0, 0>>]

byteLength(b) == 4 * b.shape[1] + b.shape[2]

\* The floats stored in the buffer, 1-based; index 20 is the device time.
BufVals(b) == [i \in 1..b.shape[1] |-> IF i = 20 THEN b.tv ELSE FieldVal(b.k, i - 1)]

\* DataView.getFloat32(off, true): throws RangeError past the end.
InRange(b, off) == off + 4 <= byteLength(b)
getFloat32(b, off) == BufVals(b)[(off \div 4) + 1]

VARIABLES
    \* WebBLEManager fields
    device, server, packetChar, controlChar,
    latestAccel, latestGyro, latestMag, latestGyroInt, latestFusion,
    latestFusionMag, latestTemp, latestTimeSec, emitScheduled,
    \* host: link state, notification subscription, connect() position,
    \* microtask queue
    gattConnected, notifying, connectPc, microtasks,
    \* AccelerometerApp fields
    mode, prevDeviceTimeSec, msgTimestamps, smoothingDisabled, pcbCall,
    \* serial manager
    serialConnected,
    \* observation of the last step and of the current turn: the action
    \* taken, the events it emitted, the buffer it was given, the sample it
    \* emitted, the buffer the slots were last decoded from, the turn's
    \* counts, whether handleDisconnect() ran since the last update, what the
    \* app did with a sample, and each transport's place in its
    \* connect/disconnect cycle
    act, evt, inBuf, lastData, lastBuf, phase, turnPkts, turnEmits, turnMixed,
    staleDisc, handled, src, lastT, lastDt, anchorBefore, prevKind, cycle,
    firstAfter,
    \* the SensorData the app's handler was given in the step just taken
    sample,
    \* the radio whose 'change' listener ran in the step just taken
    selected,
    \* the gyro radio was selected and no sample has been handled since
    \* ("armedSet" when the anchor was set at the selection, "armedNull" when
    \* it was null already); "hitSet"/"hitNull": the step just taken handled
    \* the first sample after such a selection
    gyroSel,
    \* normalize180 on its own: the angle it is given and what it returns
    normIn, normOut,
    \* the rate meter on its own, with time in ticks of 1/TicksPerSec s: the
    \* window, the time just fed (<<>>: none), the length written to the
    \* message-rate readout, and how many entries of ExampleTimes have been
    \* fed in order since the window was cleared (-1: another sequence)
    rateWin, rateIn, rateShown, rateIdx,
    \* the API call of the manager that settled in the step just taken: which
    \* one, what its host call did, and how its promise settled
    call,
    \* handleDisconnect() ran in the current turn
    turnDisc,
    \* where the async function of the reset click stands: "idle", or
    \* "serialWrite" while it awaits the serial manager's sendCommand
    resetPc,
    \* the last reset click: the transports that were connected when it was
    \* clicked, and those whose sendCommand('RESET_GYRO') it has called
    resetAt, resetSent

bleVars == <<device, server, packetChar, controlChar>>
slotVars == <<latestAccel, latestGyro, latestMag, latestGyroInt, latestFusion,
              latestFusionMag, latestTemp, latestTimeSec, emitScheduled>>
hostVars == <<gattConnected, notifying, connectPc, microtasks>>
appVars == <<mode, prevDeviceTimeSec, msgTimestamps, smoothingDisabled, pcbCall>>
turnVars == <<phase, turnPkts, turnEmits, turnMixed, turnDisc>>
obsAppVars == <<handled, src, lastT, lastDt, anchorBefore, prevKind, cycle,
                firstAfter, gyroSel, sample, selected>>
pureVars == <<normIn, normOut, rateWin, rateIn, rateShown, rateIdx>>
resetVars == <<resetPc, resetAt, resetSent>>
vars == <<bleVars, slotVars, hostVars, appVars, serialConnected,
          act, evt, call, inBuf, lastData, lastBuf, turnVars, staleDisc,
          obsAppVars, pureVars, resetVars>>

Transports == {"ble", "serial"}
Modes == {"accel", "gyro", "fusion", "fusionMag"}
NoCall == [fn |-> "none", arg |-> Null, dt |-> 0]
NoApi == [op |-> "none", host |-> "none", promise |-> "none"]
NoData ==
    [accel |-> Null, gyro |-> Null, mag |-> Null, gyroInt |-> Null,
     fusion |-> Null, fusionMag |-> Null, temperature |-> Null, t |-> 0]

\* A step that is not one of the reset click: the click's async function
\* stays where it is, and what the last click did is kept only while that
\* function is still running.
ResetKept ==
    /\ UNCHANGED resetPc
    /\ resetAt' = IF resetPc = "idle" THEN {} ELSE resetAt
    /\ resetSent' = IF resetPc = "idle" THEN {} ELSE resetSent


\* -------------------------------------------------------- AccelerometerApp
RECURSIVE Evict(_, _)
\* while (msgTimestamps.length && msgTimestamps[0] < oneSecondAgo) shift()
Evict(ws, oneSecondAgo) ==
    IF Len(ws) > 0 /\ Head(ws) < oneSecondAgo
    THEN Evict(Tail(ws), oneSecondAgo)
    ELSE ws

\* Variant: an entry exactly one second old is evicted too.
RateWindowAtInclusive(ws, t, second) ==
    LET nowSec == IF isFinite(t) THEN t
                  ELSE IF Len(ws) > 0 THEN ws[Len(ws)] ELSE 0
    IN Evict(Append(ws, nowSec), nowSec - second + 1)

\* Message-rate window after a sample with device time t, where one second
\* is `second` units of t: push(nowSec), oneSecondAgo = nowSec - 1, evict.
RateWindowAt(ws, t, second) ==
    LET nowSec == IF isFinite(t) THEN t
                  ELSE IF Len(ws) > 0 THEN ws[Len(ws)] ELSE 0
    IN Evict(Append(ws, nowSec), nowSec - second)

\* The app's samples carry whole seconds.
RateWindow(ws, t) == RateWindowAt(ws, t, 1)

\* data.accel.x.toFixed(3) and the following readouts dereference the four
\* mandatory fields: a null one raises a TypeError that ends the handler.
ReadoutThrows(data) ==
    \/ data.accel = Null
    \/ data.gyro = Null
    \/ data.mag = Null
    \/ data.temperature = Null

\* Variant: the anchor takes the sample time even when it is not finite.
ClockAnchorUnchecked(t) == <<t>>

\* Variant: the anchor never moves backwards.
ClockAnchorMonotone(t) ==
    IF ~isFinite(t) THEN Null
    ELSE IF prevDeviceTimeSec # Null /\ t < prevDeviceTimeSec[1]
         THEN prevDeviceTimeSec ELSE <<t>>

\* this.prevDeviceTimeSec = isFinite(data.t) ? data.t : null
ClockAnchor(t) == IF isFinite(t) THEN <<t>> ELSE Null

\* Variant: the difference is not clamped at zero.
ClockDtNoClamp(prev, t) ==
    IF prev # Null /\ isFinite(t) THEN t - prev[1] ELSE 0

\* dt = prev != null && isFinite(data.t) ? Math.max(0, data.t - prev) : 0
ClockDt(prev, t) ==
    IF prev # Null /\ isFinite(t) THEN Max(0, t - prev[1]) ELSE 0

\* Variant: the two fusion modes forward each other's field.
DispatchCrossed(m, data, dt) ==
    IF m = "accel" THEN [fn |-> "accel", arg |-> data.accel, dt |-> dt]
    ELSE IF m = "gyro" THEN [fn |-> "euler", arg |-> data.gyroInt, dt |-> dt]
    ELSE IF m = "fusion" THEN
        IF data.fusionMag # Null
        THEN [fn |-> "euler", arg |-> data.fusionMag, dt |-> dt] ELSE NoCall
    ELSE IF data.fusion # Null
        THEN [fn |-> "euler", arg |-> data.fusion, dt |-> dt] ELSE NoCall

\* Variant: a fusion mode whose field is absent falls back to gyroInt.
DispatchFallback(m, data, dt) ==
    IF m = "accel" THEN [fn |-> "accel", arg |-> data.accel, dt |-> dt]
    ELSE IF m = "gyro" THEN [fn |-> "euler", arg |-> data.gyroInt, dt |-> dt]
    ELSE IF m = "fusion" /\ data.fusion # Null
        THEN [fn |-> "euler", arg |-> data.fusion, dt |-> dt]
    ELSE IF m = "fusionMag" /\ data.fusionMag # Null
        THEN [fn |-> "euler", arg |-> data.fusionMag, dt |-> dt]
    ELSE [fn |-> "euler", arg |-> data.gyroInt, dt |-> dt]

\* The call made on the PCB model for one sample in mode m.
Dispatch(m, data, dt) ==
    IF m = "accel" THEN [fn |-> "accel", arg |-> data.accel, dt |-> dt]
    ELSE IF m = "gyro" THEN [fn |-> "euler", arg |-> data.gyroInt, dt |-> dt]
    ELSE IF m = "fusion" THEN
        IF data.fusion # Null
        THEN [fn |-> "euler", arg |-> data.fusion, dt |-> dt] ELSE NoCall
    ELSE IF data.fusionMag # Null
        THEN [fn |-> "euler", arg |-> data.fusionMag, dt |-> dt] ELSE NoCall

\* A gyro selection stays on record until a sample is handled.
GyroSelKept == IF gyroSel \in {"armedSet", "armedNull"} THEN gyroSel ELSE "no"

\* JavaScript's a % n for integers and n > 0: the remainder of the truncated
\* division, which takes the sign of a.
jsRem(a, n) == IF a >= 0 THEN a % n ELSE 0 - ((0 - a) % n)

\* Variant: a remainder of zero is sent up to 180, giving (-180, 180].
normalize180UpperClosed(deg) ==
    LET x == jsRem(deg + 180, 360)
    IN IF x <= 0 THEN x + 360 - 180 ELSE x - 180

\* Variant: the negative remainder is not lifted.
normalize180NoLift(deg) ==
    LET x == jsRem(deg + 180, 360)
    IN x - 180

\* const x = (deg + 180) % 360; return x < 0 ? x + 360 - 180 : x - 180;
normalize180(deg) ==
    LET x == jsRem(deg + 180, 360)
    IN IF x < 0 THEN x + 360 - 180 ELSE x - 180

\* What the step just taken did with a sample: a rollback (finite time older
\* than the anchor), a non-finite time that met a set anchor, or neither.
SampleKind ==
    IF handled # "data" \/ anchorBefore = Null THEN "other"
    ELSE IF ~isFinite(lastT) THEN "nonfinite"
    ELSE IF lastT < anchorBefore[1] THEN "rollback"
    ELSE "other"

\* handleSensorData(data), reached from the 'data' listener of transport from.
handleSensorData(data, from) ==
    /\ msgTimestamps' = RateWindow(msgTimestamps, data.t)
    /\ IF ReadoutThrows(data)
       THEN /\ UNCHANGED prevDeviceTimeSec
            /\ pcbCall' = NoCall
            /\ handled' = "threw"
            /\ lastDt' = Null
       ELSE /\ prevDeviceTimeSec' = ClockAnchor(data.t)
            /\ pcbCall' = Dispatch(mode, data, ClockDt(prevDeviceTimeSec, data.t))
            /\ handled' = "data"
            /\ lastDt' = <<ClockDt(prevDeviceTimeSec, data.t)>>
    /\ src' = from
    /\ lastT' = data.t
    /\ anchorBefore' = prevDeviceTimeSec
    /\ prevKind' = SampleKind
    /\ firstAfter' = (cycle[from] = "fresh")
    /\ cycle' = [cycle EXCEPT ![from] = IF @ = "fresh" THEN "up" ELSE @]
    /\ sample' = data
    /\ selected' = "none"
    /\ ResetKept
    /\ UNCHANGED pureVars
    /\ gyroSel' = IF ReadoutThrows(data) THEN GyroSelKept
                  ELSE IF gyroSel = "armedSet" THEN "hitSet"
                  ELSE IF gyroSel = "armedNull" THEN "hitNull" ELSE "no"
    /\ UNCHANGED <<mode, smoothingDisabled>>

\* No sample is handled in this step.
NoSampleObs ==
    /\ handled' = "none"
    /\ src' = "none"
    /\ lastT' = 0
    /\ lastDt' = Null
    /\ anchorBefore' = Null
    /\ prevKind' = "other"
    /\ firstAfter' = FALSE
    /\ pcbCall' = NoCall
    /\ sample' = NoData
    /\ selected' = "none"
    /\ UNCHANGED pureVars
    /\ gyroSel' = GyroSelKept

\* No sample is handled in this step, which is not a step of the reset click.
NoSample ==
    /\ NoSampleObs
    /\ ResetKept

\* The app does nothing in this step.
AppIdle ==
    /\ NoSample
    /\ UNCHANGED <<mode, prevDeviceTimeSec, msgTimestamps, smoothingDisabled, cycle>>

\* 'connected' listener of a transport.
onConnected(from) ==
    /\ msgTimestamps' = <<>>
    /\ prevDeviceTimeSec' = Null
    /\ cycle' = [cycle EXCEPT ![from] = IF @ = "down" THEN "fresh"
                                         ELSE IF @ = "none" THEN "up" ELSE @]
    /\ NoSample
    /\ UNCHANGED <<mode, smoothingDisabled>>

\* 'disconnected' listener of a transport.
onDisconnected(from) ==
    /\ msgTimestamps' = <<>>
    /\ prevDeviceTimeSec' = Null
    /\ cycle' = [cycle EXCEPT ![from] = IF @ \in {"up", "fresh"} THEN "down" ELSE @]
    /\ NoSample
    /\ UNCHANGED <<mode, smoothingDisabled>>


\* ----------------------------------------------------------- WebBLEManager
\* get isConnected(): !!this.server && this.server.connected
isConnected == server /\ gattConnected

\* The 20 reads of the packet listener all succeed.
Decodable(b) == \A i \in 0..19 : InRange(b, i * 4)

\* values[i] = dv.getFloat32(i * 4, true), 0-based i
Values(b) == [i \in 0..19 |-> getFloat32(b, i * 4)]

Vec3(v, i) == <<v[i], v[i + 1], v[i + 2]>>

\* this.latestTimeSec = isFinite(values[19]) ? values[19] : null
TimeSlot(v) == IF isFinite(v[19]) THEN <<v[19]>> ELSE Null

\* Variant: the pending flag is not consulted.
SchedulesEveryUpdate(es, a, g, m, t) ==
    a # Null /\ g # Null /\ m # Null /\ t # Null

\* scheduleEmitIfReady() goes on to queue a flush: no flush is pending and
\* the four mandatory slots (es, a, g, m, t: values at the call) are set.
Schedules(es, a, g, m, t) ==
    /\ ~es
    /\ a # Null /\ g # Null /\ m # Null /\ t # Null

\* The SensorData built by the queued flush from the slots of that moment.
Packet ==
    [accel |-> latestAccel, gyro |-> latestGyro, mag |-> latestMag,
     gyroInt |-> latestGyroInt, fusion |-> latestFusion,
     fusionMag |-> latestFusionMag, temperature |-> latestTemp,
     t |-> IF latestTimeSec # Null THEN latestTimeSec[1] ELSE 0]

\* A synchronous listener may run in the current turn, or begin a new one
\* once the microtask queue has drained.
InTurn == phase = "task" \/ microtasks = <<>>
\* A task of its own: the previous turn is over.
OwnTask == microtasks = <<>>
Continuing == phase = "task" /\ microtasks # <<>>

\* Turn bookkeeping of a step that handles no packet and emits no sample.
TurnStep ==
    /\ phase' = "task"
    /\ turnPkts' = IF Continuing THEN turnPkts ELSE 0
    /\ turnEmits' = IF Continuing THEN turnEmits ELSE 0
    /\ turnMixed' = (Continuing /\ turnMixed)

\* handleDisconnect(): drops the session objects and seven of the eight
\* slots (latestTimeSec stays), clears the flag, emits 'disconnected'.
handleDisconnect ==
    /\ server' = FALSE
    /\ packetChar' = FALSE
    /\ controlChar' = FALSE
    /\ latestAccel' = Null
    /\ latestGyro' = Null
    /\ latestMag' = Null
    /\ latestFusion' = Null
    /\ latestFusionMag' = Null
    /\ latestGyroInt' = Null
    /\ latestTemp' = Null
    /\ emitScheduled' = FALSE
    /\ UNCHANGED <<device, latestTimeSec>>
    /\ evt' = <<"disconnected">>
    /\ onDisconnected("ble")
    /\ staleDisc' = TRUE
    /\ turnDisc' = TRUE
    /\ lastBuf' = NoBuf
    /\ lastData' = NoData

\* The 'characteristicvaluechanged' listener registered by startNotifications.
PacketNotify(b) ==
    /\ InTurn
    /\ notifying /\ gattConnected
    /\ (IF Continuing THEN turnPkts ELSE 0) < MaxTurnPkts
    /\ Len(msgTimestamps) < MaxWin
    /\ act' = "PacketNotify"
    /\ inBuf' = b
    /\ evt' = <<>>
    /\ call' = NoApi
    /\ turnDisc' = (Continuing /\ turnDisc)
    /\ AppIdle
    /\ phase' = "task"
    /\ turnEmits' = IF Continuing THEN turnEmits ELSE 0
    /\ lastData' = NoData
    /\ UNCHANGED <<bleVars, gattConnected, notifying, connectPc, serialConnected>>
    /\ IF Decodable(b)
       THEN LET v == Values(b) IN
            /\ latestAccel' = Vec3(v, 0)
            /\ latestGyro' = Vec3(v, 3)
            /\ latestMag' = Vec3(v, 6)
            /\ latestGyroInt' = Vec3(v, 9)
            /\ latestFusion' = Vec3(v, 12)
            /\ latestFusionMag' = Vec3(v, 15)
            /\ latestTemp' = <<v[18]>>
            /\ latestTimeSec' = TimeSlot(v)
            /\ IF Schedules(emitScheduled, Vec3(v, 0), Vec3(v, 3), Vec3(v, 6), <<v[18]>>)
               THEN /\ emitScheduled' = TRUE
                    /\ microtasks' = Append(microtasks, "flush")
               ELSE UNCHANGED <<emitScheduled, microtasks>>
            /\ lastBuf' = b
            /\ staleDisc' = FALSE
            /\ turnPkts' = (IF Continuing THEN turnPkts ELSE 0) + 1
            /\ turnMixed' = (Continuing /\ (turnMixed \/ (turnPkts > 0 /\ lastBuf # b)))
       ELSE /\ UNCHANGED <<slotVars, microtasks, lastBuf, staleDisc>>
            /\ turnPkts' = IF Continuing THEN turnPkts ELSE 0
            /\ turnMixed' = (Continuing /\ turnMixed)

\* The microtask queued by scheduleEmitIfReady().
Flush ==
    /\ microtasks # <<>> /\ Head(microtasks) = "flush"
    /\ microtasks' = Tail(microtasks)
    /\ act' = "Flush"
    /\ inBuf' = NoBuf
    /\ emitScheduled' = FALSE
    /\ lastData' = Packet
    /\ evt' = <<"data">>
    /\ call' = NoApi
    /\ handleSensorData(Packet, "ble")
    /\ phase' = "drain"
    /\ turnEmits' = turnEmits + 1
    /\ UNCHANGED <<bleVars, latestAccel, latestGyro, latestMag, latestGyroInt,
                   latestFusion, latestFusionMag, latestTemp, latestTimeSec,
                   gattConnected, notifying, connectPc, serialConnected,
                   lastBuf, turnPkts, turnMixed, turnDisc, staleDisc>>

\* The device fires 'gattserverdisconnected' (link lost): the listener added
\* by connect() runs handleDisconnect().
GattDisconnected ==
    /\ InTurn
    /\ device /\ gattConnected
    /\ gattConnected' = FALSE
    /\ notifying' = FALSE
    /\ act' = "GattDisconnected"
    /\ inBuf' = NoBuf
    /\ call' = NoApi
    /\ handleDisconnect
    /\ TurnStep
    /\ UNCHANGED <<connectPc, microtasks, serialConnected>>

\* disconnect(): with a connected link gatt.disconnect() drops it, which
\* fires 'gattserverdisconnected' at once, and the finally block runs after
\* the await; without one the finally block runs in the same call.  When
\* gatt.disconnect() throws (linkOk = FALSE) the link stays as it was, the
\* finally block runs in the same call, and, there being no catch block,
\* the exception rejects the promise disconnect() returned.
Disconnect(linkOk) ==
    /\ InTurn
    /\ act' = "Disconnect"
    /\ inBuf' = NoBuf
    /\ handleDisconnect
    /\ TurnStep
    /\ IF device /\ gattConnected
       THEN IF linkOk
            THEN /\ gattConnected' = FALSE
                 /\ notifying' = FALSE
                 /\ microtasks' = Append(microtasks, "disconnectFinally")
                 /\ call' = NoApi
            ELSE /\ UNCHANGED <<gattConnected, notifying, microtasks>>
                 /\ call' = [op |-> "disconnect", host |-> "threw",
                             promise |-> "rejected"]
       ELSE /\ UNCHANGED <<gattConnected, notifying, microtasks>>
            /\ call' = [op |-> "disconnect", host |-> "none",
                        promise |-> "resolved"]
    /\ UNCHANGED <<connectPc, serialConnected>>

\* The continuation of disconnect() after its await: the finally block.
DisconnectFinally ==
    /\ microtasks # <<>> /\ Head(microtasks) = "disconnectFinally"
    /\ microtasks' = Tail(microtasks)
    /\ act' = "DisconnectFinally"
    /\ inBuf' = NoBuf
    /\ call' = [op |-> "disconnect", host |-> "ok", promise |-> "resolved"]
    /\ handleDisconnect
    /\ phase' = "drain"
    /\ UNCHANGED <<gattConnected, notifying, connectPc, serialConnected,
                   turnPkts, turnEmits, turnMixed>>


\* A step of the manager that touches neither slots nor the app's clock.
ErrorEvent ==
    /\ evt' = <<"error">>
    /\ AppIdle

\* connect() up to its first await: returns at once when already connected,
\* else opens the device chooser.
Connect ==
    /\ OwnTask
    /\ connectPc = "idle"
    /\ act' = "Connect"
    /\ inBuf' = NoBuf
    /\ connectPc' = IF isConnected THEN "idle" ELSE "requestDevice"
    /\ evt' = <<>>
    /\ call' = IF isConnected
               THEN [op |-> "connect", host |-> "none", promise |-> "resolved"]
               ELSE NoApi
    /\ turnDisc' = FALSE
    /\ AppIdle
    /\ TurnStep
    /\ UNCHANGED <<bleVars, slotVars, gattConnected, notifying, microtasks,
                   serialConnected, lastBuf, staleDisc>>
    /\ lastData' = NoData

\* The continuation of connect() after the await it is parked at; ok is the
\* outcome of the awaited call.  A rejected call lands in the catch block,
\* which emits 'error'; only the control characteristic is optional.
ConnectStep(ok) ==
    /\ OwnTask
    /\ connectPc # "idle"
    /\ ok => (connectPc \in {"requestDevice", "gattConnect"} \/ gattConnected)
    /\ act' = "ConnectStep"
    /\ inBuf' = NoBuf
    /\ TurnStep
    /\ turnDisc' = FALSE
    /\ lastData' = NoData
    /\ UNCHANGED <<slotVars, microtasks, serialConnected, lastBuf, staleDisc>>
    /\ IF connectPc = "requestDevice" THEN
          /\ device' = (device \/ ok)
          /\ connectPc' = IF ok THEN "gattConnect" ELSE "idle"
          /\ IF ok THEN evt' = <<>> /\ AppIdle ELSE ErrorEvent
          /\ UNCHANGED <<server, packetChar, controlChar, gattConnected, notifying>>
       ELSE IF connectPc = "gattConnect" THEN
          /\ server' = (server \/ ok)
          /\ gattConnected' = (gattConnected \/ ok)
          /\ connectPc' = IF ok THEN "getPrimaryService" ELSE "idle"
          /\ IF ok THEN evt' = <<>> /\ AppIdle ELSE ErrorEvent
          /\ UNCHANGED <<device, packetChar, controlChar, notifying>>
       ELSE IF connectPc = "getPrimaryService" THEN
          /\ connectPc' = IF ok THEN "getPacketChar" ELSE "idle"
          /\ IF ok THEN evt' = <<>> /\ AppIdle ELSE ErrorEvent
          /\ UNCHANGED <<bleVars, gattConnected, notifying>>
       ELSE IF connectPc = "getPacketChar" THEN
          /\ packetChar' = (packetChar \/ ok)
          /\ connectPc' = IF ok THEN "getControlChar" ELSE "idle"
          /\ IF ok THEN evt' = <<>> /\ AppIdle ELSE ErrorEvent
          /\ UNCHANGED <<device, server, controlChar, gattConnected, notifying>>
       ELSE IF connectPc = "getControlChar" THEN
          /\ controlChar' = ok
          /\ connectPc' = "startNotifications"
          /\ evt' = <<>>
          /\ AppIdle
          /\ UNCHANGED <<device, server, packetChar, gattConnected, notifying>>
       ELSE
          \* tryStart: no characteristic, or a failed start, is tolerated
          /\ notifying' = (packetChar /\ ok)
          /\ connectPc' = "idle"
          /\ evt' = <<"connected">>
          /\ onConnected("ble")
          /\ UNCHANGED <<bleVars, gattConnected>>
    \* the promise of connect() resolves when the call ends, on either path
    /\ call' = IF connectPc' # "idle" THEN NoApi
               ELSE [op |-> "connect",
                     host |-> IF evt' = <<"error">> THEN "rejected" ELSE "ok",
                     promise |-> "resolved"]

\* Variant: a missing control characteristic is passed over in silence.
sendCommandEventsNoCharSilent(writeOk) ==
    IF ~controlChar \/ writeOk THEN <<>> ELSE <<"error">>

\* Variant: a rejected write is attempted, and reported, a second time.
sendCommandEventsRetried(writeOk) ==
    IF controlChar /\ writeOk THEN <<>>
    ELSE IF controlChar THEN <<"error", "error">> ELSE <<"error">>

\* sendCommand(command): no control characteristic, or a rejected write,
\* is caught and reported by one 'error' event.
sendCommandEvents(writeOk) ==
    IF controlChar /\ writeOk THEN <<>> ELSE <<"error">>

\* What the host did for a sendCommand() call: nothing when there is no
\* control characteristic, else the one write, resolved or rejected; the
\* try/catch makes the call's own promise resolve either way.
sendCommandCall(writeOk) ==
    [op |-> "sendCommand",
     host |-> IF ~controlChar THEN "nochar"
              ELSE IF writeOk THEN "ok" ELSE "rejected",
     promise |-> "resolved"]

\* sendCommand(command) called on the manager; the write's completion has no
\* state of the manager to interleave with.
SendCommand(writeOk) ==
    /\ OwnTask
    /\ act' = "SendCommand"
    /\ evt' = sendCommandEvents(writeOk)
    /\ call' = sendCommandCall(writeOk)
    /\ inBuf' = NoBuf
    /\ lastData' = NoData
    /\ AppIdle
    /\ TurnStep
    /\ turnDisc' = FALSE
    /\ UNCHANGED <<bleVars, slotVars, hostVars, serialConnected, lastBuf, staleDisc>>


\* ------------------------------------------------------ serial transport
\* The samples the serial manager delivers: the SensorData shape, with the
\* optional triples present or absent and any device time.
OptionalSets ==
    { {}, {"fusion", "fusionMag"}, {"gyroInt", "fusion"},
      {"gyroInt", "fusionMag"}, {"gyroInt", "fusion", "fusionMag"} }
SerialSample(tv, opt) ==
    [accel |-> <<100, 101, 102>>, gyro |-> <<103, 104, 105>>,
     mag |-> <<106, 107, 108>>,
     gyroInt |-> IF "gyroInt" \in opt THEN <<109, 110, 111>> ELSE Null,
     fusion |-> IF "fusion" \in opt THEN <<112, 113, 114>> ELSE Null,
     fusionMag |-> IF "fusionMag" \in opt THEN <<115, 116, 117>> ELSE Null,
     temperature |-> <<118>>, t |-> tv]

\* A manager-side step of the app or of the serial transport: the BLE
\* manager and the host are untouched.
BleIdle ==
    /\ evt' = <<>>
    /\ call' = NoApi
    /\ inBuf' = NoBuf
    /\ TurnStep
    /\ turnDisc' = FALSE
    /\ lastData' = NoData
    /\ UNCHANGED <<bleVars, slotVars, hostVars, lastBuf, staleDisc>>

SerialConnected ==
    /\ OwnTask
    /\ ~serialConnected
    /\ serialConnected' = TRUE
    /\ act' = "SerialConnected"
    /\ onConnected("serial")
    /\ BleIdle

SerialDisconnected ==
    /\ OwnTask
    /\ serialConnected
    /\ serialConnected' = FALSE
    /\ act' = "SerialDisconnected"
    /\ onDisconnected("serial")
    /\ BleIdle

SerialData(data) ==
    /\ OwnTask
    /\ serialConnected
    /\ Len(msgTimestamps) < MaxWin
    /\ act' = "SerialData"
    /\ handleSensorData(data, "serial")
    /\ BleIdle
    /\ UNCHANGED serialConnected

\* ------------------------------------------------------------ user input
\* Variant: only the gyro listener disables the slider.
SliderDisabledGyroOnly(m) == m = "gyro"

\* this.smoothingSlider.disabled as the listener of radio m leaves it: false
\* in the accel listener, true in the three others.
SliderDisabled(m) == m # "accel"

\* Variant: no mode touches the clock anchor.
ModeAnchorKept(m, prev) == prev

\* The clock anchor after the radio of mode m was selected: only the gyro
\* listener assigns this.prevDeviceTimeSec = null.
ModeAnchor(m, prev) == IF m = "gyro" THEN Null ELSE prev

\* 'change' listener of the mode radio m.
SelectMode(m) ==
    /\ OwnTask
    /\ act' = "SelectMode"
    /\ mode' = m
    /\ smoothingDisabled' = SliderDisabled(m)
    /\ prevDeviceTimeSec' = ModeAnchor(m, prevDeviceTimeSec)
    /\ handled' = "none"
    /\ src' = "none"
    /\ lastT' = 0
    /\ lastDt' = Null
    /\ anchorBefore' = Null
    /\ prevKind' = "other"
    /\ firstAfter' = FALSE
    /\ pcbCall' = NoCall
    /\ sample' = NoData
    /\ selected' = m
    /\ ResetKept
    /\ UNCHANGED pureVars
    /\ gyroSel' = IF m # "gyro" THEN GyroSelKept
                  ELSE IF prevDeviceTimeSec # Null \/ gyroSel = "armedSet"
                       THEN "armedSet" ELSE "armedNull"
    /\ UNCHANGED <<msgTimestamps, cycle, serialConnected>>
    /\ BleIdle

\* What the click does with the model: resetModelOrientation() in gyro mode.
ResetModelCall(m) ==
    IF m = "gyro" THEN [fn |-> "reset", arg |-> Null, dt |-> 0] ELSE NoCall

\* How sendCommand of the serial manager settles: TRUE when it resolves,
\* FALSE when it rejects (the write is rejected).
SerialWriteOutcomes == BOOLEAN

\* The transports whose isConnected is true.
ConnectedNow ==
    (IF serialConnected THEN {"serial"} ELSE {})
        \cup (IF isConnected THEN {"ble"} ELSE {})

\* 'click' listener of the reset button, up to the first await of its async
\* function: nulls the anchor, resets the model orientation in gyro mode, and
\* calls sendCommand('RESET_GYRO') of the serial manager when that one is
\* connected, of the BLE manager otherwise when that one is connected.
ResetClick(writeOk) ==
    /\ OwnTask
    /\ resetPc = "idle"
    /\ act' = "ResetClick"
    /\ prevDeviceTimeSec' = Null
    /\ handled' = "none"
    /\ src' = "none"
    /\ lastT' = 0
    /\ lastDt' = Null
    /\ anchorBefore' = Null
    /\ prevKind' = "other"
    /\ firstAfter' = FALSE
    /\ gyroSel' = GyroSelKept
    /\ sample' = NoData
    /\ selected' = "none"
    /\ UNCHANGED pureVars
    /\ pcbCall' = ResetModelCall(mode)
    /\ resetAt' = ConnectedNow
    /\ IF serialConnected
       THEN /\ resetPc' = "serialWrite"
            /\ resetSent' = {"serial"}
            /\ evt' = <<>>
            /\ call' = NoApi
       ELSE /\ resetPc' = "idle"
            /\ resetSent' = IF isConnected THEN {"ble"} ELSE {}
            /\ evt' = IF isConnected THEN sendCommandEvents(writeOk) ELSE <<>>
            /\ call' = IF isConnected THEN sendCommandCall(writeOk) ELSE NoApi
    /\ inBuf' = NoBuf
    /\ TurnStep
    /\ turnDisc' = FALSE
    /\ UNCHANGED <<mode, msgTimestamps, smoothingDisabled, cycle, serialConnected,
                   bleVars, slotVars, hostVars, lastBuf, staleDisc>>
    /\ lastData' = NoData

\* The async function of the reset click after its await of the serial
\* manager's sendCommand: a rejection goes to the catch block, which logs;
\* otherwise sendCommand('RESET_GYRO') of the BLE manager is called when that
\* one is connected now.
ResetContinue(serialOk, writeOk) ==
    /\ OwnTask
    /\ resetPc = "serialWrite"
    /\ act' = "ResetContinue"
    /\ resetPc' = "idle"
    /\ UNCHANGED resetAt
    /\ IF serialOk /\ isConnected
       THEN /\ resetSent' = resetSent \cup {"ble"}
            /\ evt' = sendCommandEvents(writeOk)
            /\ call' = sendCommandCall(writeOk)
       ELSE /\ UNCHANGED resetSent
            /\ evt' = <<>>
            /\ call' = NoApi
    /\ NoSampleObs
    /\ inBuf' = NoBuf
    /\ TurnStep
    /\ turnDisc' = FALSE
    /\ lastData' = NoData
    /\ UNCHANGED <<mode, prevDeviceTimeSec, msgTimestamps, smoothingDisabled,
                   cycle, serialConnected, bleVars, slotVars, hostVars, lastBuf,
                   staleDisc>>

\* ------------------------------------------------------------------- spec
InitProgram ==
    /\ device = FALSE /\ server = FALSE
    /\ packetChar = FALSE /\ controlChar = FALSE
    /\ latestAccel = Null /\ latestGyro = Null /\ latestMag = Null
    /\ latestGyroInt = Null /\ latestFusion = Null /\ latestFusionMag = Null
    /\ latestTemp = Null /\ latestTimeSec = Null
    /\ emitScheduled = FALSE
    /\ gattConnected = FALSE /\ notifying = FALSE
    /\ connectPc = "idle" /\ microtasks = <<>>
    /\ mode = "accel" /\ prevDeviceTimeSec = Null /\ msgTimestamps = <<>>
    /\ smoothingDisabled = FALSE /\ pcbCall = NoCall
    /\ serialConnected = FALSE
    /\ act = "Init" /\ evt = <<>> /\ inBuf = NoBuf
    /\ lastData = NoData /\ lastBuf = NoBuf
    /\ phase = "task" /\ turnPkts = 0 /\ turnEmits = 0 /\ turnMixed = FALSE
    /\ staleDisc = FALSE
    /\ handled = "none" /\ src = "none" /\ lastT = 0 /\ lastDt = Null
    /\ anchorBefore = Null /\ prevKind = "other"
    /\ cycle = [x \in Transports |-> "none"] /\ firstAfter = FALSE
    /\ call = NoApi /\ turnDisc = FALSE
    /\ resetPc = "idle" /\ resetAt = {} /\ resetSent = {}
    /\ gyroSel = "no" /\ sample = NoData /\ selected = "none"

Init ==
    /\ InitProgram
    /\ normIn = 0 /\ normOut = Null
    /\ rateWin = <<>> /\ rateIn = Null /\ rateShown = 0 /\ rateIdx = 0

Next ==
    \/ \E b \in Buffers : PacketNotify(b)
    \/ Flush
    \/ GattDisconnected
    \/ \E linkOk \in BOOLEAN : Disconnect(linkOk)
    \/ DisconnectFinally
    \/ Connect
    \/ \E ok \in BOOLEAN : ConnectStep(ok)
    \/ \E writeOk \in BOOLEAN : SendCommand(writeOk)
    \/ SerialConnected
    \/ SerialDisconnected
    \/ \E tv \in TimeVals, opt \in OptionalSets : SerialData(SerialSample(tv, opt))
    \/ \E m \in Modes : SelectMode(m)
    \/ \E writeOk \in BOOLEAN : ResetClick(writeOk)
    \/ \E serialOk \in SerialWriteOutcomes, writeOk \in BOOLEAN :
          ResetContinue(serialOk, writeOk)

Spec == Init /\ [][Next]_vars

\* The BLE manager with the app listening, driven by every packet shape and
\* every outcome of connect(); no serial transport and no user input.
NextBle ==
    \/ \E b \in Buffers : PacketNotify(b)
    \/ Flush
    \/ GattDisconnected
    \/ \E linkOk \in BOOLEAN : Disconnect(linkOk)
    \/ DisconnectFinally
    \/ Connect
    \/ \E ok \in BOOLEAN : ConnectStep(ok)
    \/ \E writeOk \in BOOLEAN : SendCommand(writeOk)

SpecBle == Init /\ [][NextBle]_vars

\* The app with both transports and the user's input; the BLE manager gets
\* well-formed packets of one payload and its connect() calls succeed, the
\* serial samples carry every optional triple, and the serial write of a
\* reset click settles before anything else happens.
AppBuffers == [k : {1}, tv : {0, MaxT}, shape : {Exact}]
AppOptional == { {"gyroInt", "fusion", "fusionMag"} }
\* No serial write of a reset click is pending.
ResetSettled == resetPc = "idle"

NextApp ==
    \/ ResetSettled /\ \E b \in AppBuffers : PacketNotify(b)
    \/ ResetSettled /\ Flush
    \/ ResetSettled /\ GattDisconnected
    \/ ResetSettled /\ Disconnect(TRUE)
    \/ ResetSettled /\ DisconnectFinally
    \/ ResetSettled /\ Connect
    \/ ResetSettled /\ ConnectStep(TRUE)
    \/ ResetSettled /\ SerialConnected
    \/ ResetSettled /\ SerialDisconnected
    \/ ResetSettled /\ \E tv \in TimeVals, opt \in AppOptional :
                            SerialData(SerialSample(tv, opt))
    \/ ResetSettled /\ \E m \in Modes : SelectMode(m)
    \/ \E writeOk \in BOOLEAN : ResetClick(writeOk)
    \/ \E serialOk \in SerialWriteOutcomes, writeOk \in BOOLEAN :
          ResetContinue(serialOk, writeOk)

SpecApp == Init /\ [][NextApp]_vars

\* Mode dispatch: the app fed by the serial transport alone, with every
\* combination of optional triples, and the user's input.
NextMode ==
    \/ SerialConnected
    \/ SerialDisconnected
    \/ \E tv \in TimeVals, opt \in OptionalSets : SerialData(SerialSample(tv, opt))
    \/ \E m \in Modes : SelectMode(m)
    \/ \E writeOk \in BOOLEAN : ResetClick(writeOk)
    \/ \E serialOk \in SerialWriteOutcomes, writeOk \in BOOLEAN :
          ResetContinue(serialOk, writeOk)

SpecMode == Init /\ [][NextMode]_vars

\* The reset click between the two transports: both connect and disconnect
\* at any moment, in every mode, while the serial write of a click is awaited.
NextReset ==
    \/ Connect
    \/ ConnectStep(TRUE)
    \/ GattDisconnected
    \/ Disconnect(TRUE)
    \/ DisconnectFinally
    \/ SerialConnected
    \/ SerialDisconnected
    \/ \E opt \in AppOptional : SerialData(SerialSample(MaxT, opt))
    \/ \E m \in Modes : SelectMode(m)
    \/ \E writeOk \in BOOLEAN : ResetClick(writeOk)
    \/ \E serialOk \in SerialWriteOutcomes, writeOk \in BOOLEAN :
          ResetContinue(serialOk, writeOk)

SpecReset == Init /\ [][NextReset]_vars

\* normalize180 applied to every integer angle of the range.
Degrees == (0 - MaxDeg)..MaxDeg
InitNorm ==
    /\ InitProgram
    /\ normIn \in Degrees /\ normOut = Null
    /\ rateWin = <<>> /\ rateIn = Null /\ rateShown = 0 /\ rateIdx = 0

Normalize ==
    /\ normOut = Null
    /\ normOut' = <<normalize180(normIn)>>
    /\ act' = "Normalize"
    /\ UNCHANGED <<normIn, rateWin, rateIn, rateShown, rateIdx, bleVars,
                   slotVars, hostVars, appVars, serialConnected, evt, call,
                   inBuf, lastData, lastBuf, turnVars, staleDisc, obsAppVars, resetVars>>

NextNorm == Normalize

SpecNorm == InitNorm /\ [][NextNorm]_vars

\* The rate meter on its own, with sample times in fifths of a second.
TicksPerSec == 5
Ticks == 0..MaxTick
\* 0.0, 0.2, 0.4, 0.6, 0.8, 1.0, 1.2 s
ExampleTimes == <<0, 1, 2, 3, 4, 5, 6>>

\* The rate-meter part of handleSensorData for a sample with time t.
RateSample(t) ==
    /\ Len(rateWin) < MaxRateLen
    /\ (isFinite(t) /\ rateWin # <<>>) => t >= rateWin[Len(rateWin)] - MaxBack
    /\ rateWin' = RateWindowAt(rateWin, t, TicksPerSec)
    /\ rateShown' = Len(rateWin')
    /\ rateIn' = <<t>>
    /\ rateIdx' = IF rateIdx >= 0 /\ rateIdx < Len(ExampleTimes)
                     /\ t = ExampleTimes[rateIdx + 1]
                  THEN rateIdx + 1 ELSE 0 - 1
    /\ act' = "RateSample"
    /\ UNCHANGED <<normIn, normOut, bleVars, slotVars, hostVars, appVars,
                   serialConnected, evt, call, inBuf, lastData, lastBuf, turnVars,
                   staleDisc, obsAppVars, resetVars>>

\* The rate-meter part of the 'connected' and 'disconnected' listeners.
RateClear ==
    /\ rateWin' = <<>>
    /\ rateShown' = 0
    /\ rateIn' = Null
    /\ rateIdx' = 0
    /\ act' = "RateClear"
    /\ UNCHANGED <<normIn, normOut, bleVars, slotVars, hostVars, appVars,
                   serialConnected, evt, call, inBuf, lastData, lastBuf, turnVars,
                   staleDisc, obsAppVars, resetVars>>

NextRate ==
    \/ \E t \in Ticks \cup {NaN} : RateSample(t)
    \/ RateClear

SpecRate == Init /\ [][NextRate]_vars


\* ----------------------------------------------------------------- claims
\* The 20 scalars of an emitted sample in packet order.
Flat(d) ==
    d.accel \o d.gyro \o d.mag \o d.gyroInt \o d.fusion \o d.fusionMag
      \o d.temperature \o <<d.t>>

\* The last step emitted a sample built from slots that hold an update.
EmittedFromUpdate == act = "Flush" /\ lastBuf # NoBuf

C2_NoDataAfterDisconnect == (evt = <<"data">>) => ~staleDisc

\* C3: no 'data' event carries a null accel, gyro, mag or temperature.
C3_Readiness ==
    (evt = <<"data">>) =>
        /\ lastData.accel # Null
        /\ lastData.gyro # Null
        /\ lastData.mag # Null
        /\ lastData.temperature # Null

\* C4: a packet whose length is not exactly 80 bytes changes no slot,
\* schedules no flush and leaves the connection state alone.
C4_MalformedDropped ==
    [][(act' = "PacketNotify" /\ byteLength(inBuf') # 80) =>
          UNCHANGED <<slotVars, microtasks, bleVars, gattConnected>>]_vars

\* C5: the sample emitted for an 80-byte buffer reproduces its 20 floats in
\* packet order, device time included.
C5_Positional ==
    (EmittedFromUpdate /\ byteLength(lastBuf) = 80) =>
        Flat(lastData) = BufVals(lastBuf)

\* C6: every non-finite float of the packet, at any of the 20 indices,
\* reaches the emitted sample unchanged.
C6_NonFinitePassThrough ==
    (EmittedFromUpdate /\ byteLength(lastBuf) = 80) =>
        \A i \in 1..20 :
            ~isFinite(BufVals(lastBuf)[i]) => Flat(lastData)[i] = BufVals(lastBuf)[i]

\* C7: for every handled sample, dt is 0 when the anchor was null or t is
\* not finite, else max(0, t - anchor); dt is never negative.
C7_DtRule ==
    (handled = "data") =>
        /\ lastDt = << IF anchorBefore = Null \/ lastT \in NonFinite THEN 0
                       ELSE IF lastT - anchorBefore[1] > 0
                            THEN lastT - anchorBefore[1] ELSE 0 >>
        /\ lastDt[1] >= 0

\* C7 witness: a sample older than the anchor, whose difference was clamped.
C7_Witness ==
    /\ handled = "data"
    /\ anchorBefore # Null /\ lastT \notin NonFinite
    /\ lastT < anchorBefore[1]
    /\ lastDt = <<0>>

\* C8 as stated: finite t becomes the anchor, non-finite t leaves the anchor
\* as it was.
C8_AnchorKeptOnNonFinite ==
    (handled = "data") =>
        prevDeviceTimeSec = IF lastT \in NonFinite THEN anchorBefore ELSE <<lastT>>

\* C8 amended: finite t becomes the anchor, non-finite t nulls the anchor,
\* so the finite sample handled next has dt = 0.
C8_AnchorUpdate ==
    [][(handled' = "data") =>
          /\ prevDeviceTimeSec' = IF lastT' \in NonFinite THEN Null ELSE <<lastT'>>
          /\ (handled = "data" /\ lastT \in NonFinite) => lastDt' = <<0>>]_vars

\* C8 witness: the finite sample handled right after a non-finite one that
\* had met a set anchor.
C8_Witness ==
    /\ handled = "data"
    /\ prevKind = "nonfinite"
    /\ lastT \notin NonFinite
    /\ anchorBefore = Null
    /\ lastDt = <<0>>
    /\ prevDeviceTimeSec = <<lastT>>

\* The last handled sample was a rollback: finite and older than the anchor.
Rollback ==
    /\ handled = "data"
    /\ anchorBefore # Null /\ lastT \notin NonFinite
    /\ lastT < anchorBefore[1]

\* C9: a rollback sample has dt = 0 and moves the anchor to its time; the
\* finite sample handled next, at t' >= t, has dt = t' - t.
C9_Rollback ==
    [][(handled' = "data") =>
          /\ Rollback' => (lastDt' = <<0>> /\ prevDeviceTimeSec' = <<lastT'>>)
          /\ (Rollback /\ lastT' \notin NonFinite /\ lastT' >= lastT) =>
                lastDt' = <<lastT' - lastT>>]_vars

\* C9 witness: the sample handled right after a rollback, with a positive dt
\* again.
C9_Witness ==
    /\ handled = "data"
    /\ prevKind = "rollback"
    /\ anchorBefore # Null /\ lastT \notin NonFinite
    /\ lastT > anchorBefore[1]
    /\ lastDt = <<lastT - anchorBefore[1]>>
    /\ lastDt[1] > 0

\* C10: the first sample a transport delivers after its disconnect ->
\* reconnect cycle has dt = 0.
C10_FirstSampleAfterCycle ==
    (handled = "data" /\ firstAfter) => lastDt = <<0>>

\* C11: selecting the gyro radio nulls the clock anchor, the anchor stays
\* null until a sample is handled, and the first sample handled after the
\* selection has dt = 0.
C11_GyroSelectResetsClock ==
    /\ gyroSel \in {"armedSet", "armedNull"} => prevDeviceTimeSec = Null
    /\ gyroSel \in {"hitSet", "hitNull"} =>
          /\ handled = "data"
          /\ anchorBefore = Null
          /\ lastDt = <<0>>
          /\ pcbCall.fn # "none" => pcbCall.dt = 0

\* C11 witness: the anchor was set when gyro was selected, and the finite
\* sample handled next reached the Euler consumer with dt = 0.
C11_Witness ==
    /\ gyroSel = "hitSet"
    /\ mode = "gyro"
    /\ lastT \notin NonFinite
    /\ lastDt = <<0>>
    /\ pcbCall.fn = "euler" /\ pcbCall.dt = 0

\* C12: a sample handled in fusion (fusionMag) mode makes no call on the
\* PCB model when its fusion (fusionMag) field is absent, and otherwise
\* makes the one Euler call with that field and the sample's dt.
C12_FusionAbsenceSkipped ==
    (handled = "data" /\ mode \in {"fusion", "fusionMag"}) =>
        LET f == IF mode = "fusion" THEN sample.fusion ELSE sample.fusionMag
        IN IF f = Null THEN pcbCall = NoCall
           ELSE pcbCall = [fn |-> "euler", arg |-> f, dt |-> lastDt[1]]

\* C12 witness: fusion mode, a sample without fusion that does carry the
\* other two Euler triples, and no call.
C12_Witness ==
    /\ handled = "data" /\ mode = "fusion"
    /\ sample.fusion = Null
    /\ sample.fusionMag # Null /\ sample.gyroInt # Null
    /\ pcbCall = NoCall

\* C13: right after every 'connected' and every 'disconnected' event of the
\* BLE manager all caches are empty: the eight slots (device time included),
\* the pending flag, the clock anchor and the rate window.
C13_LifecycleClearsCaches ==
    (evt \in {<<"connected">>, <<"disconnected">>}) =>
        /\ latestAccel = Null /\ latestGyro = Null /\ latestMag = Null
        /\ latestGyroInt = Null /\ latestFusion = Null /\ latestFusionMag = Null
        /\ latestTemp = Null /\ latestTimeSec = Null
        /\ ~emitScheduled
        /\ prevDeviceTimeSec = Null
        /\ msgTimestamps = <<>>

\* C14: whenever connect() fails (its catch block emitted 'error'), the
\* manager is disconnected: isConnected is false, no server or
\* characteristic is retained and the caches are clear, so that the next
\* connect() starts a fresh attempt.
C14_ConnectFailureCleansUp ==
    (act = "ConnectStep" /\ evt = <<"error">>) =>
        /\ ~isConnected
        /\ ~server /\ ~packetChar /\ ~controlChar
        /\ latestAccel = Null /\ latestGyro = Null /\ latestMag = Null
        /\ latestGyroInt = Null /\ latestFusion = Null /\ latestFusionMag = Null
        /\ latestTemp = Null /\ latestTimeSec = Null
        /\ ~emitScheduled

\* C15 as stated: normalize(190) = -170, normalize(-190) = 170,
\* normalize(0) = 0, normalize(180) = 180, and every result is in (-180, 180].
C15_NormalizeUpperClosed ==
    (act = "Normalize") =>
        /\ normIn = 190 => normOut = <<0 - 170>>
        /\ normIn = 0 - 190 => normOut = <<170>>
        /\ normIn = 0 => normOut = <<0>>
        /\ normIn = 180 => normOut = <<180>>
        /\ normOut[1] > 0 - 180 /\ normOut[1] <= 180

\* C15 amended: normalize(190) = -170, normalize(-190) = 170,
\* normalize(0) = 0, normalize(180) = -180, and every result is in
\* [-180, 180).
C15_NormalizeLowerClosed ==
    (act = "Normalize") =>
        /\ normIn = 190 => normOut = <<0 - 170>>
        /\ normIn = 0 - 190 => normOut = <<170>>
        /\ normIn = 0 => normOut = <<0>>
        /\ normIn = 180 => normOut = <<0 - 180>>
        /\ normOut[1] >= 0 - 180 /\ normOut[1] < 180

\* C15 witness: 180 was normalized, to -180.
C15_Witness == act = "Normalize" /\ normIn = 180 /\ normOut = <<0 - 180>>

\* C16: for every integer angle d of the range, normalizing the result
\* again changes nothing, d + 360 normalizes to the same value, and the
\* result equals ((d + 180) mod 360 + 360) mod 360 - 180 with the
\* non-negative modulo.
C16_NormalizeAlgebra ==
    (act = "Normalize") =>
        /\ normalize180(normOut[1]) = normOut[1]
        /\ normalize180(normIn + 360) = normOut[1]
        /\ normOut[1] = ((((normIn + 180) % 360) + 360) % 360) - 180

\* C16 witness: an angle below -180, where the truncated remainder is
\* negative, brought into range.
C16_Witness == act = "Normalize" /\ normIn = 0 - 370 /\ normOut = <<0 - 10>>

\* C17: a sample at finite device time t leaves the window equal to the
\* old window with t appended and its longest prefix of entries < t - 1 s
\* removed, and the reported rate is the window's length; fed 0.0, 0.2, ...,
\* 1.2 s from empty, the meter reports 6 at t = 1.2 (0.0 evicted, 0.2 kept).
C17_RateWindow ==
    [][(act' = "RateSample" /\ rateIn' # Null /\ isFinite(rateIn'[1])) =>
          LET t == rateIn'[1]
              w == Append(rateWin, t)
              first == CHOOSE i \in 1..Len(w) :
                          /\ w[i] >= t - TicksPerSec
                          /\ \A j \in 1..(i - 1) : w[j] < t - TicksPerSec
          IN /\ rateWin' = SubSeq(w, first, Len(w))
             /\ rateShown' = Len(rateWin')
             /\ rateIdx' = Len(ExampleTimes) =>
                    (rateShown' = 6 /\ rateWin' = <<1, 2, 3, 4, 5, 6>>)]_vars

\* C17 witness: the seven example times were fed in order; six entries are
\* reported and the head is the entry exactly one second old.
C17_Witness ==
    /\ act = "RateSample"
    /\ rateIdx = Len(ExampleTimes)
    /\ rateIn = <<6>>
    /\ rateShown = 6
    /\ Head(rateWin) = 6 - TicksPerSec

\* C18: a control characteristic that cannot be obtained does not stop
\* connect(): the call goes on to start notifications and emits 'connected'
\* with the session kept; every sendCommand() made without a control
\* characteristic reports exactly one 'error'.
C18_OptionalControlChannel ==
    [][/\ (act' = "ConnectStep" /\ connectPc = "getControlChar") =>
            /\ connectPc' = "startNotifications"
            /\ evt' = <<>>
            /\ UNCHANGED <<device, server, packetChar, gattConnected>>
       /\ (act' = "ConnectStep" /\ connectPc = "startNotifications") =>
            /\ evt' = <<"connected">>
            /\ UNCHANGED <<device, server, packetChar, controlChar, gattConnected>>
       /\ (act' = "SendCommand" /\ ~controlChar) =>
            /\ call'.host = "nochar"
            /\ evt' = <<"error">>]_vars

\* C18 witness: connected and subscribed without a control characteristic,
\* samples have been decoded, and a command has just failed with 'error'.
C18_Witness ==
    /\ act = "SendCommand"
    /\ isConnected /\ packetChar /\ notifying /\ ~controlChar
    /\ latestAccel # Null
    /\ evt = <<"error">>

\* C19: sendCommand() changes no slot, not the pending flag and nothing of
\* the connection state, queues nothing, emits 'error' exactly once when it
\* fails (no control characteristic, or a rejected write) and nothing when
\* it succeeds; 'data' and 'disconnected' are never emitted by it.
C19_SendCommandFrame ==
    [][(act' = "SendCommand") =>
          /\ UNCHANGED <<slotVars, bleVars, hostVars>>
          /\ UNCHANGED <<prevDeviceTimeSec, msgTimestamps, mode>>
          /\ evt' = IF call'.host = "ok" THEN <<>> ELSE <<"error">>]_vars

\* C19 witness: a rejected write on a live session with decoded slots.
C19_Witness ==
    /\ act = "SendCommand"
    /\ call.host = "rejected"
    /\ isConnected /\ controlChar
    /\ latestAccel # Null /\ latestTemp # Null
    /\ evt = <<"error">>

\* C20: no connect(), disconnect() or sendCommand() call ends with a
\* rejected promise; a failure of connect() or sendCommand() is reported by
\* an 'error' event, and a disconnect() call that has run its course leaves
\* the manager disconnected with 'disconnected' emitted.
C20_FailuresNeverEscape ==
    /\ call.promise # "rejected"
    /\ (call.op \in {"connect", "sendCommand"}
          /\ call.host \in {"rejected", "nochar"}) => evt = <<"error">>
    /\ (call.op = "disconnect") => (~isConnected /\ evt = <<"disconnected">>)

\* C21: a handled sample makes at most one call on the PCB model, chosen by
\* the mode of that moment: accel -> tilt call with the sample's accel,
\* gyro -> Euler call with its gyroInt, fusion -> Euler call with its
\* fusion, fusionMag -> Euler call with its fusionMag; the dt passed is the
\* dt computed for that sample.
C21_DispatchRouting ==
    (handled = "data") =>
        LET dt == lastDt[1]
            euler(f) == [fn |-> "euler", arg |-> f, dt |-> dt]
        IN /\ mode = "accel" =>
                 pcbCall = [fn |-> "accel", arg |-> sample.accel, dt |-> dt]
           /\ mode = "gyro" => pcbCall = euler(sample.gyroInt)
           /\ mode = "fusion" => pcbCall \in {NoCall, euler(sample.fusion)}
           /\ mode = "fusionMag" => pcbCall \in {NoCall, euler(sample.fusionMag)}

\* C21 witness: fusionMag mode, a sample carrying all three Euler triples
\* and a positive dt, and the Euler call made with fusionMag.
C21_Witness ==
    /\ handled = "data" /\ mode = "fusionMag"
    /\ sample.gyroInt # Null /\ sample.fusion # Null /\ sample.fusionMag # Null
    /\ lastDt # Null /\ lastDt[1] > 0
    /\ pcbCall = [fn |-> "euler", arg |-> sample.fusionMag, dt |-> lastDt[1]]

\* C22: in gyro mode a sample without gyroInt makes no call on the PCB
\* model.
C22_GyroAbsenceSkipped ==
    (handled = "data" /\ mode = "gyro" /\ sample.gyroInt = Null) =>
        pcbCall = NoCall

\* C23: the mode is one of the four and starts as accel; the listener of
\* radio m can run in any mode and leaves m active; the smoothing slider is
\* enabled exactly when the mode is accel.
C23_ModeMachine ==
    /\ mode \in Modes
    /\ act = "Init" => mode = "accel"
    /\ selected # "none" => mode = selected
    /\ smoothingDisabled <=> (mode # "accel")
    /\ OwnTask => \A m \in Modes : ENABLED SelectMode(m)

\* C23 witness: accel selected again after gyro, the slider enabled again.
C23_Witness ==
    /\ act = "SelectMode" /\ selected = "accel"
    /\ gyroSel \in {"armedSet", "armedNull"}
    /\ mode = "accel" /\ ~smoothingDisabled

\* C24: the BLE manager's 'connected' and 'disconnected' events alternate,
\* starting with 'connected' (a 'disconnected' is emitted only when the
\* last lifecycle event was 'connected', and the other way round), and
\* connect() on a connected manager emits nothing and changes nothing.
C24_LifecycleAlternation ==
    [][/\ (evt' = <<"connected">>) => cycle["ble"] \in {"none", "down"}
       /\ (evt' = <<"disconnected">>) => cycle["ble"] \in {"up", "fresh"}
       /\ (act' = "Connect" /\ isConnected) =>
            /\ evt' = <<>>
            /\ UNCHANGED <<bleVars, slotVars, hostVars>>]_vars

\* C25: a reset click, in any mode and connection state, nulls the clock
\* anchor (a sample handled right after it has dt = 0), leaves the mode and
\* the rate window unchanged, resets the model orientation exactly in gyro
\* mode, and leaves the manager's state unchanged whatever the sends do; when
\* its async function has finished, sendCommand('RESET_GYRO') has been called
\* on exactly the transports that were connected at the click.
C25_ResetCommand ==
    [][/\ (act' = "ResetClick") =>
            /\ prevDeviceTimeSec' = Null
            /\ UNCHANGED <<mode, msgTimestamps, bleVars, slotVars, hostVars>>
            /\ pcbCall' = IF mode = "gyro"
                          THEN [fn |-> "reset", arg |-> Null, dt |-> 0]
                          ELSE NoCall
       /\ (act' = "ResetContinue") =>
            UNCHANGED <<mode, prevDeviceTimeSec, msgTimestamps, bleVars,
                        slotVars, hostVars>>
       /\ (act = "ResetClick" /\ handled' = "data") => lastDt' = <<0>>
       /\ (act' \in {"ResetClick", "ResetContinue"} /\ resetPc' = "idle") =>
            resetSent' = resetAt']_vars

\* C26: in every reachable state emitScheduled is true exactly when one
\* flush is queued and has not run, and two flushes are never queued at once.
C26_PendingFlag ==
    LET queued == Cardinality({i \in DOMAIN microtasks : microtasks[i] = "flush"})
    IN  /\ queued <= 1
        /\ emitScheduled <=> (queued = 1)

\* C27: after a sample with finite device time t, whatever the order of the
\* sample times, the window is non-empty, its last entry is t, and no entry
\* is more than one second older than t.
C27_RateWindowInvariant ==
    (act = "RateSample" /\ rateIn # Null /\ isFinite(rateIn[1])) =>
        LET t == rateIn[1]
        IN  /\ rateWin # <<>>
            /\ rateWin[Len(rateWin)] = t
            /\ \A i \in 1..Len(rateWin) : t - TicksPerSec <= rateWin[i]

====
